---- MODULE Spec2Model ----
(***************************************************************************)
(* A model of the point-geometry library assets/libs/point-libs.js         *)
(* (TSMT$Point, TSMT$ApproxEqual, TSMT$PointUtils) and of the Angular      *)
(* component that lazy-loads it and reflects a point cloud about a line.   *)
(*                                                                         *)
(* Numbers.  A JavaScript number is modelled as a pair <<n, d>>:           *)
(*   d > 0          the rational n/d in lowest terms,                      *)
(*   <<1, 0>>       Infinity,   <<-1, 0>>  -Infinity,   <<0, 0>>  NaN.      *)
(* Finite arithmetic is exact (rounding of IEEE doubles and the sign of    *)
(* zero are abstracted away); division by zero and the propagation of      *)
(* Infinity and NaN follow IEEE 754.  The result of Math.sqrt is kept as   *)
(* [sq |-> q], the non-negative root of q, so that roots are compared and  *)
(* divided exactly through their radicands.                                *)
(***************************************************************************)
EXTENDS Integers, Sequences, FiniteSets, TLC

(***************************************************************************)
(* Bounds of the model.                                                    *)
(***************************************************************************)
\* coordinates of the points p0, p1, p handed to the library: 0..MaxCoord
MaxCoord == 2
\* coordinates of the elements of a point cloud: 0..MaxCloudCoord
MaxCloudCoord == 1
\* largest number of elements of a point cloud
MaxLen == 2

(***************************************************************************)
(* JavaScript numbers.                                                     *)
(***************************************************************************)
Sign(n) == IF n > 0 THEN 1 ELSE IF n < 0 THEN 0 - 1 ELSE 0

AbsInt(n) == IF n < 0 THEN 0 - n ELSE n

RECURSIVE GCD(_, _)
GCD(a, b) == IF b = 0 THEN a ELSE GCD(b, a % b)

\* the number n/d in canonical form (d may be zero or negative)
Rat(n, d) ==
  IF d = 0 THEN <<Sign(n), 0>>
  ELSE LET g == GCD(AbsInt(n), AbsInt(d))
           s == Sign(d)
       IN  <<(s * n) \div g, (s * d) \div g>>

Num(n) == <<n, 1>>

NaN == <<0, 0>>

Infinity == <<1, 0>>

isNaN(a) == a = NaN

isFinite(a) == a[2] # 0

RNeg(a) == <<0 - a[1], a[2]>>

RAdd(a, b) ==
  IF a[2] = 0 /\ b[2] = 0
  THEN (IF a = b THEN a ELSE NaN)         \* Inf + Inf, Inf - Inf, NaN + x
  ELSE Rat(a[1] * b[2] + b[1] * a[2], a[2] * b[2])

RSub(a, b) == RAdd(a, RNeg(b))

RMul(a, b) == Rat(a[1] * b[1], a[2] * b[2])

RDiv(a, b) == Rat(a[1] * b[2], a[2] * b[1])

RAbs(a) == <<AbsInt(a[1]), a[2]>>

\* n1/d1 < n2/d2 for d1, d2 > 0, without forming the cross products
RECURSIVE FracLt(_, _, _, _)
FracLt(n1, d1, n2, d2) ==
  LET q1 == n1 \div d1
      q2 == n2 \div d2
      r1 == n1 % d1
      r2 == n2 % d2
  IN  IF q1 # q2 THEN q1 < q2
      ELSE IF r2 = 0 THEN FALSE
      ELSE IF r1 = 0 THEN TRUE
      ELSE FracLt(d2, r2, d1, r1)

\* a < b : false as soon as one side is NaN
RLt(a, b) ==
  IF isNaN(a) \/ isNaN(b) THEN FALSE
  ELSE IF a[2] = 0 \/ b[2] = 0
       THEN (IF a[2] = 0 /\ b[2] = 0 THEN a[1] < b[1]
             ELSE IF a[2] = 0 THEN a[1] < 0
             ELSE b[1] > 0)
  ELSE FracLt(a[1], a[2], b[1], b[2])

\* a == b : NaN equals nothing
REq(a, b) == ~isNaN(a) /\ ~isNaN(b) /\ a = b

RLe(a, b) == RLt(a, b) \/ REq(a, b)

RGt(a, b) == RLt(b, a)

RGe(a, b) == RLe(b, a)

\* Math.sqrt(q): NaN for a negative or NaN argument
MathSqrt(q) == IF RGe(q, Num(0)) THEN [sq |-> q] ELSE [sq |-> NaN]

\* the quotient of two results of Math.sqrt
SqrtDiv(a, b) == [sq |-> RDiv(a.sq, b.sq)]

\* a >= b for two results of Math.sqrt
SqrtGe(a, b) == RGe(a.sq, b.sq)

Point(x, y) == [x |-> x, y |-> y]

(***************************************************************************)
(* The state of a client of TSMT$PointUtils.  Arrays are heap objects:     *)
(* heap[id] is the content of the array with identity id, a sequence of    *)
(* points, or Null when id is free.  args holds the arguments of the next  *)
(* call (args.points is an array identity), op the operation called last,  *)
(* ret what it returned, pre the value every argument had when the client  *)
(* built it, point the TSMT$Point object it holds (NullPoint when none).   *)
(***************************************************************************)
VARIABLES heap, args, op, ret, pre, point

\* the variables of a call of the library other than the arrays
callVars == <<args, op, ret, pre, point>>

\* number of array identities the client can hold at once: its cloud, the
\* result it holds and the result being built
HeapSize == 3

\* no array allocated
EmptyHeap == [id \in {} |-> <<>>]

\* the first free identity, given the identities still referenced
Alloc(h, roots) ==
  CHOOSE id \in 1..HeapSize :
    /\ id \notin roots
    /\ \A j \in 1..HeapSize : (j \notin roots) => id <= j

\* heap h with the array content stored under id
Store(h, id, content) ==
  [j \in DOMAIN h \cup {id} |-> IF j = id THEN content ELSE h[j]]

\* the heap with only the referenced arrays kept
Collect(h, roots) == [id \in DOMAIN h \cap roots |-> h[id]]

(***************************************************************************)
(* TSMT$PointUtils.reflect                                                 *)
(***************************************************************************)
\* the threshold below which the squared length of p1-p0 is degenerate
ReflectEps == Rat(1, 100000000)

\* reflectPoint with the sign of a*dy wrong in the second coordinate
reflectPointSignSlip(p, a, b, x0, y0) ==
  LET dx == RSub(p.x, x0)
      dy == RSub(p.y, y0)
  IN  Point(RAdd(RAdd(RMul(a, dx), RMul(b, dy)), x0),
            RAdd(RAdd(RMul(b, dx), RMul(a, dy)), y0))

\* reflectPoint without the translation back by p0
reflectPointNoTranslation(p, a, b, x0, y0) ==
  LET dx == RSub(p.x, x0)
      dy == RSub(p.y, y0)
  IN  Point(RAdd(RMul(a, dx), RMul(b, dy)), RSub(RMul(b, dx), RMul(a, dy)))

\* the body of the loop: the image of p
reflectPoint(p, a, b, x0, y0) ==
  LET dx == RSub(p.x, x0)
      dy == RSub(p.y, y0)
      p1x == RAdd(RAdd(RMul(a, dx), RMul(b, dy)), x0)
      p1y == RAdd(RSub(RMul(b, dx), RMul(a, dy)), y0)
  IN  Point(p1x, p1y)

\* for (i = 0; i < len; ++i) reflect.push(...), from index i with acc pushed
RECURSIVE reflectLoop(_, _, _, _, _, _, _)
reflectLoop(pts, i, acc, a, b, x0, y0) ==
  IF i > Len(pts) THEN acc
  ELSE reflectLoop(pts, i + 1, Append(acc, reflectPoint(pts[i], a, b, x0, y0)),
                   a, b, x0, y0)

\* degenerate without its test: the line is never taken as degenerate
degenerateNever(d) == FALSE

\* Math.abs(d) < 0.00000001
degenerate(d) == RLt(RAbs(d), ReflectEps)

\* newArray handing back the array of the caller: the images overwrite it
newArrayAliased(h, roots, points) == points

\* var reflect = new Array(): the identity of the array the images go to
newArray(h, roots, points) == Alloc(h, roots)

\* reflect(points, p0, p1) on heap h with the identities in roots referenced:
\* the identity returned and the heap afterwards
reflect(h, roots, points, p0, p1) ==
  LET x0 == p0.x
      y0 == p0.y
      x1 == p1.x
      y1 == p1.y
      dx == RSub(x1, x0)
      dy == RSub(y1, y0)
      d  == RAdd(RMul(dx, dx), RMul(dy, dy))
  IN  IF degenerate(d)
      THEN [ret |-> points, heap |-> h]
      ELSE LET a  == RDiv(RSub(RMul(dx, dx), RMul(dy, dy)), d)
               b  == RDiv(RMul(RMul(Num(2), dx), dy), d)
               id == newArray(h, roots, points)
           IN  [ret  |-> id,
                heap |-> Store(h, id, reflectLoop(h[points], 1, <<>>, a, b, x0, y0))]

(***************************************************************************)
(* What a call returns to the client.                                      *)
(***************************************************************************)
\* what a call can return
NoValue == [k |-> "none"]

ArrayRef(id) == [k |-> "array", id |-> id]

Number(v) == [k |-> "number", v |-> v]

Root(r) == [k |-> "root", sq |-> r.sq]

AngleValue(a) == [k |-> "angle", a |-> a]

Index(i) == [k |-> "index", i |-> i]

Boolean(b) == [k |-> "boolean", b |-> b]

PointObj(pt) == [k |-> "point", pt |-> pt]

Thrown(e) == [k |-> "throw", e |-> e]

(***************************************************************************)
(* JavaScript values other than the numbers of the geometry: a value is a  *)
(* record whose one field tells its type.                                  *)
(***************************************************************************)
Undefined == [undefined |-> TRUE]

IsUndefined(v) == "undefined" \in DOMAIN v

\* null, as handed over where a point or a number is expected
NullPoint == [null |-> TRUE]

IsNull(pt) == "null" \in DOMAIN pt

NumberValue(q) == [num |-> q]

BooleanValue(b) == [bool |-> b]

StringValue(str) == [str |-> str]

\* typeof value
typeof(value) ==
  IF "num" \in DOMAIN value THEN "number"
  ELSE IF "str" \in DOMAIN value THEN "string"
  ELSE IF "bool" \in DOMAIN value THEN "boolean"
  ELSE IF "undefined" \in DOMAIN value THEN "undefined"
  ELSE "object"

\* the number a value is converted to in arithmetic
ToNumber(value) ==
  IF typeof(value) = "number" THEN value.num
  ELSE IF IsNull(value) THEN Num(0)
  ELSE NaN

\* the strings handed to the setters of a TSMT$Point
PointStrings == {"2", "-1", "abc"}

\* parseFloat on those strings
parseFloat(str) ==
  IF str = "2" THEN Num(2)
  ELSE IF str = "-1" THEN Num(0 - 1)
  ELSE NaN

(***************************************************************************)
(* TSMT$Point: the coordinates _x and _y, the cached norm _norm and the    *)
(* flag _invalidated telling that the cache is stale.                      *)
(***************************************************************************)
\* length(): the object afterwards; the value returned is its field norm
length(this) ==
  IF this.invalidated
  THEN [this EXCEPT
          !.norm = MathSqrt(RAdd(RMul(ToNumber(this.x), ToNumber(this.x)),
                                 RMul(ToNumber(this.y), ToNumber(this.y)))),
          !.invalidated = FALSE]
  ELSE this

\* new TSMT$Point(x, y)
TSMTPoint(x, y) ==
  LET x1 == IF IsUndefined(x) THEN NumberValue(Num(0)) ELSE x
      y1 == IF IsUndefined(y) THEN NumberValue(Num(0)) ELSE y
  IN  length([x |-> x1, y |-> y1, invalidated |-> TRUE, norm |-> Undefined])

\* __assign(value)
assign(value) ==
  IF typeof(value) = "number"
  THEN (IF ~isNaN(value.num) /\ isFinite(value.num) THEN value
        ELSE NumberValue(Num(0)))
  ELSE IF typeof(value) = "string"
  THEN (LET t == parseFloat(value.str)
        IN  IF ~isNaN(t) THEN NumberValue(t) ELSE NumberValue(Num(0)))
  ELSE IF typeof(value) = "boolean"
  THEN (IF value.bool THEN NumberValue(Num(0)) ELSE NumberValue(Num(1)))
  ELSE value

\* the setter of x without the invalidation of the cached norm
setXKeepsNorm(this, value) == [this EXCEPT !.x = assign(value)]

\* set x(value)
setX(this, value) == [this EXCEPT !.x = assign(value), !.invalidated = TRUE]

\* set y(value)
setY(this, value) == [this EXCEPT !.y = assign(value), !.invalidated = TRUE]

(***************************************************************************)
(* TSMT$ApproxEqual.compare                                                *)
(***************************************************************************)
\* compare with the relative error always taken against the first number
compareRelativeToFirst(a, b, tol) ==
  IF isNaN(a) \/ isNaN(b) THEN FALSE
  ELSE IF REq(a, b) THEN TRUE
  ELSE RLe(RAbs(RDiv(RSub(a, b), a)), tol)

\* compare on three numbers
compare(a, b, tol) ==
  IF isNaN(a) \/ isNaN(b) THEN FALSE
  ELSE IF REq(a, b) THEN TRUE
  ELSE IF RGt(RAbs(b), RAbs(a))
       THEN RLe(RAbs(RDiv(RSub(a, b), b)), tol)
       ELSE RLe(RAbs(RDiv(RSub(a, b), a)), tol)

\* the default of tol
DefaultTol == Rat(1, 1000)

\* compare on values that may be undefined or null, tol left out when it is
\* undefined
ApproxEqualCompare(a, b, tol) ==
  LET tol1 == IF IsUndefined(tol) THEN NumberValue(DefaultTol) ELSE tol
  IN  IF \/ IsUndefined(a) \/ IsNull(a) \/ isNaN(ToNumber(a))
         \/ IsUndefined(b) \/ IsNull(b) \/ isNaN(ToNumber(b))
      THEN FALSE
      ELSE compare(ToNumber(a), ToNumber(b), ToNumber(tol1))

(***************************************************************************)
(* Angles.  Math.atan2(dy, dx) depends on the direction of (dx, dy) only;  *)
(* it is kept as that direction in lowest integer terms, dir = <<y, x>>,   *)
(* with deg telling whether the value was multiplied by 180/Math.PI.  The  *)
(* angle 0 (dy = 0 and dx >= 0, atan2(0, 0) included) is the same number   *)
(* in both units and has the one form ZeroAngle.                           *)
(***************************************************************************)
ZeroAngle == [dir |-> <<0, 1>>, deg |-> FALSE]

MathAtan2(dy, dx) ==
  LET ny == dy[1] * dx[2]
      nx == dx[1] * dy[2]
      g  == GCD(AbsInt(ny), AbsInt(nx))
  IN  IF ny = 0 /\ nx >= 0 THEN ZeroAngle
      ELSE [dir |-> <<ny \div g, nx \div g>>, deg |-> FALSE]

\* 180 * value / Math.PI
ToDegrees(value) == IF value = ZeroAngle THEN ZeroAngle ELSE [value EXCEPT !.deg = TRUE]

\* Math.cos and Math.sin of an angle value, handed over as radians.  A
\* radian angle along an axis has the exact cosine and sine 0, 1 or -1; the
\* other values are irrational and are kept as the term fn(arg).
Exact(q) == [exact |-> q]

TrigTerm(fn, arg) == [fn |-> fn, arg |-> arg]

MathCos(a) ==
  IF ~a.deg /\ (a.dir[1] = 0 \/ a.dir[2] = 0)
  THEN Exact(Num(a.dir[2]))
  ELSE TrigTerm("cos", a)

MathSin(a) ==
  IF ~a.deg /\ (a.dir[1] = 0 \/ a.dir[2] = 0)
  THEN Exact(Num(a.dir[1]))
  ELSE TrigTerm("sin", a)

\* base + t * d for a cosine or sine t
Along(base, t, d) ==
  IF "exact" \in DOMAIN t THEN Exact(RAdd(base, RMul(t.exact, d)))
  ELSE IF d = Num(0) THEN Exact(base)
  ELSE [base |-> base, coef |-> d, t |-> t]

(***************************************************************************)
(* TSMT$PointUtils                                                         *)
(***************************************************************************)
\* !p for a point argument: true for null and for undefined
IsMissingPoint(pt) == IsNull(pt) \/ IsUndefined(pt)

l2Norm(p0, p1) ==
  IF IsMissingPoint(p0) \/ IsMissingPoint(p1) THEN MathSqrt(Num(0))
  ELSE LET dx == RSub(p0.x, p1.x)
           dy == RSub(p0.y, p1.y)
       IN  MathSqrt(RAdd(RMul(dx, dx), RMul(dy, dy)))

angle(p0, p1, toDegree) ==
  LET value == MathAtan2(RSub(p1.y, p0.y), RSub(p1.x, p0.x))
  IN  IF toDegree THEN ToDegrees(value) ELSE value

\* ratio with a guard: 0 when the segment p0-p1 has no length
ratioGuarded(p0, p1, p2) ==
  LET l1 == l2Norm(p0, p1)
      l2 == l2Norm(p0, p2)
  IN  IF l1.sq = Num(0) THEN MathSqrt(Num(0)) ELSE SqrtDiv(l2, l1)

ratio(p0, p1, p2) ==
  LET l1 == l2Norm(p0, p1)
      l2 == l2Norm(p0, p2)
  IN  SqrtDiv(l2, l1)

\* TSMT$ApproxEqual.compare(a1, a2, 0.0001) on two angles in degrees.  Two
\* distinct directions with integer components of magnitude below 39 differ
\* by more than 0.0001 of the larger angle, so within the bounds of the
\* model the comparison is true exactly for equal angles.
compareAngles(a1, a2) == a1 = a2

isParallel(p0, p1, p2, p3) ==
  LET a1 == angle(p0, p1, TRUE)
      a2 == angle(p2, p3, TRUE)
  IN  compareAngles(a1, a2)

\* the tolerance of the endpoint and of the vertical/horizontal tests
PointOnLineEps == Rat(1, 100000000)

\* the tolerance handed to compare for tx and ty
PointOnLineTol == Rat(1, 1000)

pointOnLine(p0, p1, p) ==
  LET dx0 == RSub(p.x, p0.x)
      dy0 == RSub(p.y, p0.y)
      tx0 == IF RLt(RAbs(dx0), PointOnLineEps) /\ RLt(RAbs(dy0), PointOnLineEps)
             THEN Num(0) ELSE Num(0 - 1)
      dx1 == RSub(p1.x, p.x)
      dy1 == RSub(p1.y, p.y)
      ty0 == IF RLt(RAbs(dx1), PointOnLineEps) /\ RLt(RAbs(dy1), PointOnLineEps)
             THEN Num(1) ELSE Num(0 - 2)
      dx  == RSub(p1.x, p0.x)
      dy  == RSub(p1.y, p0.y)
  IN  IF REq(tx0, Num(0)) \/ REq(ty0, Num(1)) THEN TRUE
      ELSE IF RLt(RAbs(dx), PointOnLineEps)
           THEN (IF RLt(RAbs(dy), PointOnLineEps) THEN FALSE
                 ELSE LET ty == RDiv(dy0, RSub(p1.y, p0.y))
                      IN  RGe(ty, Num(0)) /\ RLe(ty, Num(1)))
           ELSE LET tx == RDiv(dx0, RSub(p1.x, p0.x))
                IN  IF RLt(RAbs(dy), PointOnLineEps)
                    THEN RGe(tx, Num(0)) /\ RLe(tx, Num(1))
                    ELSE LET ty == RDiv(dy0, RSub(p1.y, p0.y))
                         IN  IF /\ RGe(tx, Num(0)) /\ RLe(tx, Num(1))
                                /\ RGe(ty, Num(0)) /\ RLe(ty, Num(1))
                             THEN compare(tx, ty, PointOnLineTol)
                             ELSE FALSE

\* isLeft with the boundary counted as left
isLeftOrOn(p0, p1, p2) ==
  LET amt == RSub(RMul(RSub(p1.x, p0.x), RSub(p2.y, p0.y)),
                  RMul(RSub(p2.x, p0.x), RSub(p1.y, p0.y)))
  IN  RGe(amt, Num(0))

isLeft(p0, p1, p2) ==
  LET amt == RSub(RMul(RSub(p1.x, p0.x), RSub(p2.y, p0.y)),
                  RMul(RSub(p2.x, p0.x), RSub(p1.y, p0.y)))
  IN  RGt(amt, Num(0))

\* the point returned has coordinates p0 + (cos a, sin a) * d
project(p0, p1, d) ==
  LET a == angle(p0, p1, TRUE)
  IN  Point(Along(p0.x, MathCos(a), d), Along(p0.y, MathSin(a), d))

\* the loops of bottomLeft and bottomRight, from the 0-based index i with
\* index the best so far; points[i] is pts[i + 1]
RECURSIVE bottomLeftLoop(_, _, _)
bottomLeftLoop(pts, i, index) ==
  IF ~(i < Len(pts)) THEN index
  ELSE LET pt  == pts[i + 1]
           cur == pts[index + 1]
       IN  IF RLt(pt.y, cur.y) \/ (RLe(pt.y, cur.y) /\ RLt(pt.x, cur.x))
           THEN bottomLeftLoop(pts, i + 1, i)
           ELSE bottomLeftLoop(pts, i + 1, index)

bottomLeft(pts) == bottomLeftLoop(pts, 0, 0)

\* bottomRightLoop with the test on x copied from bottomLeft
RECURSIVE bottomRightLoopCopied(_, _, _)
bottomRightLoopCopied(pts, i, index) ==
  IF ~(i < Len(pts)) THEN index
  ELSE LET pt  == pts[i + 1]
           cur == pts[index + 1]
       IN  IF RLt(pt.y, cur.y) \/ (RLe(pt.y, cur.y) /\ RLt(pt.x, cur.x))
           THEN bottomRightLoopCopied(pts, i + 1, i)
           ELSE bottomRightLoopCopied(pts, i + 1, index)

RECURSIVE bottomRightLoop(_, _, _)
bottomRightLoop(pts, i, index) ==
  IF ~(i < Len(pts)) THEN index
  ELSE LET pt  == pts[i + 1]
           cur == pts[index + 1]
       IN  IF RLt(pt.y, cur.y) \/ (RLe(pt.y, cur.y) /\ RGt(pt.x, cur.x))
           THEN bottomRightLoop(pts, i + 1, i)
           ELSE bottomRightLoop(pts, i + 1, index)

bottomRight(pts) == bottomRightLoop(pts, 0, 0)

\* obj[key] for a point object and a numeric key: a point has the
\* properties x and y only, so the value is undefined
PointAt(obj, i) == Undefined

\* the candidate read in the loop of closestPointToLine: p = points[i],
\* then p[i]
closestCandidate(pts, i) == PointAt(pts[i + 1], i)

\* |a*q.x + b*q.y + c|
lineForm(a, b, c, q) == RAbs(RAdd(RAdd(RMul(a, q.x), RMul(b, q.y)), c))

\* the loop of closestPointToLine from the 0-based index i; reading .x of
\* undefined throws a TypeError
RECURSIVE closestLoop(_, _, _, _, _, _, _)
closestLoop(pts, i, minIndex, min, a, b, c) ==
  IF ~(i < Len(pts)) THEN Index(minIndex)
  ELSE LET q == closestCandidate(pts, i)
       IN  IF IsUndefined(q) THEN Thrown("TypeError")
           ELSE LET d == lineForm(a, b, c, q)
                IN  IF RLt(d, min)
                    THEN closestLoop(pts, i + 1, i, d, a, b, c)
                    ELSE closestLoop(pts, i + 1, minIndex, min, a, b, c)

closestPointToLine(pts, p0, p1) ==
  LET a == RSub(p0.y, p1.y)
      b == RSub(p1.x, p0.x)
      c == RSub(RMul(p0.x, p1.y), RMul(p1.x, p0.y))
  IN  IF Len(pts) = 0 THEN Thrown("TypeError")
      ELSE closestLoop(pts, 1, 0, lineForm(a, b, c, pts[1]), a, b, c)

pointToLineDistancee(p0, p1, p) ==
  LET vx == RSub(p1.x, p0.x)
      vy == RSub(p1.y, p0.y)
      wx == RSub(p.x, p0.x)
      wy == RSub(p.y, p0.y)
      c1 == RAdd(RMul(vx, wx), RMul(vy, wy))
      c2 == RAdd(RMul(vx, vx), RMul(vy, vy))
      b  == RDiv(c1, c2)
      px == RAdd(p0.x, RMul(b, vx))
      py == RAdd(p0.y, RMul(b, vy))
      dx == RSub(p.x, px)
      dy == RSub(p.y, py)
  IN  MathSqrt(RAdd(RMul(dx, dx), RMul(dy, dy)))

\* pointToSegmentDistance without the clamp at p1
pointToSegmentDistanceNoEndClamp(p0, p1, p) ==
  LET vx == RSub(p1.x, p0.x)
      vy == RSub(p1.y, p0.y)
      wx == RSub(p.x, p0.x)
      wy == RSub(p.y, p0.y)
      c1 == RAdd(RMul(wx, vx), RMul(wy, vy))
      c2 == RAdd(RMul(vx, vx), RMul(vy, vy))
  IN  IF RLe(c1, Num(0)) THEN MathSqrt(RAdd(RMul(wx, wx), RMul(wy, wy)))
      ELSE LET b  == RDiv(c1, c2)
               px == RAdd(p0.x, RMul(b, vx))
               py == RAdd(p0.y, RMul(b, vy))
               dx == RSub(p.x, px)
               dy == RSub(p.y, py)
           IN  MathSqrt(RAdd(RMul(dx, dx), RMul(dy, dy)))

pointToSegmentDistance(p0, p1, p) ==
  LET vx == RSub(p1.x, p0.x)
      vy == RSub(p1.y, p0.y)
      wx == RSub(p.x, p0.x)
      wy == RSub(p.y, p0.y)
      c1 == RAdd(RMul(wx, vx), RMul(wy, vy))
      c2 == RAdd(RMul(vx, vx), RMul(vy, vy))
  IN  IF RLe(c1, Num(0)) THEN MathSqrt(RAdd(RMul(wx, wx), RMul(wy, wy)))
      ELSE IF RLe(c2, c1)
           THEN LET wx1 == RSub(p1.x, p.x)
                    wy1 == RSub(p1.y, p.y)
                IN  MathSqrt(RAdd(RMul(wx1, wx1), RMul(wy1, wy1)))
           ELSE LET b  == RDiv(c1, c2)
                    px == RAdd(p0.x, RMul(b, vx))
                    py == RAdd(p0.y, RMul(b, vy))
                    dx == RSub(p.x, px)
                    dy == RSub(p.y, py)
                IN  MathSqrt(RAdd(RMul(dx, dx), RMul(dy, dy)))

\* the threshold below which the squared length of p1-p0 is degenerate
ProjectionEps == Rat(1, 10000000)

\* pointSegmentProjection without the clamp at p1
pointSegmentProjectionNoEndClamp(p0, p1, p) ==
  LET p0x == p0.x
      p0y == p0.y
      p1x == p1.x
      p1y == p1.y
      dx  == RSub(p1x, p0x)
      dy  == RSub(p1y, p0y)
      d   == RAdd(RMul(dx, dx), RMul(dy, dy))
  IN  IF RLt(d, ProjectionEps) THEN Point(p0x, p0y)
      ELSE LET t == RDiv(RAdd(RMul(RSub(p.x, p0x), RSub(p1x, p0x)),
                              RMul(RSub(p.y, p0y), RSub(p1y, p0y))), d)
           IN  IF RLt(t, Num(0)) THEN Point(p0x, p0y)
               ELSE Point(RAdd(RMul(RSub(Num(1), t), p0x), RMul(t, p1x)),
                          RAdd(RMul(RSub(Num(1), t), p0y), RMul(t, p1y)))

pointSegmentProjection(p0, p1, p) ==
  LET p0x == p0.x
      p0y == p0.y
      p1x == p1.x
      p1y == p1.y
      dx  == RSub(p1x, p0x)
      dy  == RSub(p1y, p0y)
      d   == RAdd(RMul(dx, dx), RMul(dy, dy))
  IN  IF RLt(d, ProjectionEps) THEN Point(p0x, p0y)
      ELSE LET t == RDiv(RAdd(RMul(RSub(p.x, p0x), RSub(p1x, p0x)),
                              RMul(RSub(p.y, p0y), RSub(p1y, p0y))), d)
           IN  IF RLt(t, Num(0)) THEN Point(p0x, p0y)
               ELSE IF RGt(t, Num(1)) THEN Point(p1x, p1y)
               ELSE Point(RAdd(RMul(RSub(Num(1), t), p0x), RMul(t, p1x)),
                          RAdd(RMul(RSub(Num(1), t), p0y), RMul(t, p1y)))

(***************************************************************************)
(* getExtension.  A string is the sequence of its characters.              *)
(***************************************************************************)
EXTENSION_ENUM == {"NONE", "SCRIPT", "CSS"}

\* the lower-case form of a character
LowerCaseChar(ch) ==
  IF ch = "J" THEN "j"
  ELSE IF ch = "S" THEN "s"
  ELSE IF ch = "C" THEN "c"
  ELSE ch

\* str.toLowerCase()
toLowerCase(str) == [i \in 1..Len(str) |-> LowerCaseChar(str[i])]

\* str.indexOf(ch) for a one-character ch, searching from the 1-based
\* position i: the 0-based index of the first occurrence, or -1
RECURSIVE indexOfFrom(_, _, _)
indexOfFrom(str, ch, i) ==
  IF i > Len(str) THEN 0 - 1
  ELSE IF str[i] = ch THEN i - 1
  ELSE indexOfFrom(str, ch, i + 1)

indexOf(str, ch) == indexOfFrom(str, ch, 1)

\* str.substr(start, len) for 0 <= start
substr(str, start, len) ==
  LET last == IF start + len < Len(str) THEN start + len ELSE Len(str)
  IN  SubSeq(str, start + 1, last)

getExtension(file) ==
  IF IsUndefined(file) \/ IsNull(file) \/ file.str = <<>> THEN "NONE"
  ELSE LET index == indexOf(file.str, ".")
       IN  IF index = 0 - 1 THEN "NONE"
           ELSE LET ext == substr(file.str, index + 1, Len(file.str))
                IN  IF toLowerCase(ext) = <<"j", "s">> THEN "SCRIPT"
                    ELSE IF toLowerCase(ext) = <<"c", "s", "s">> THEN "CSS"
                    ELSE "NONE"

(***************************************************************************)
(* rxjs: ReplaySubject, of and forkJoin.  subjects[sid] is the state of    *)
(* the ReplaySubject with identity sid: the values it has emitted and      *)
(* whether it has completed.  subs is the list of the observables handed   *)
(* out and of the subscriptions to them: owner tells who holds it, url the *)
(* url it was requested for, src its source (a subject, or of(value)),     *)
(* subscribed whether subscribe was called and got the notifications the   *)
(* subscriber has received.                                                *)
(***************************************************************************)
VARIABLES subjects, subs

NextNote(value) == [note |-> "next", value |-> value]

CompleteNote == [note |-> "complete"]

\* new ReplaySubject()
NewReplaySubject == [buffer |-> <<>>, stopped |-> FALSE]

\* subject.asObservable()
asObservable(sid) == [subject |-> sid]

\* of(value)
of(value) == [of |-> value]

IsSubjectSource(src) == "subject" \in DOMAIN src

\* the subscription has received complete
HasCompleted(sub) == \E i \in 1..Len(sub.got) : sub.got[i] = CompleteNote

\* the subscription has received a value
HasValue(sub) == \E i \in 1..Len(sub.got) : sub.got[i].note = "next"

\* the notifications a value buffer replays
Replayed(buffer) == [i \in 1..Len(buffer) |-> NextNote(buffer[i])]

\* what a plain Subject hands to a new subscriber: no value, and complete
\* when it has completed
replayNothing(subject) ==
  IF subject.stopped THEN <<CompleteNote>> ELSE <<>>

\* what a ReplaySubject hands to a new subscriber: the values emitted so
\* far, and complete when it has completed
replay(subject) ==
  Replayed(subject.buffer) \o (IF subject.stopped THEN <<CompleteNote>> ELSE <<>>)

\* what a new subscriber of the source src receives at once
onSubscribe(sj, src) ==
  IF IsSubjectSource(src) THEN replay(sj[src.subject])
  ELSE <<NextNote(src.of), CompleteNote>>

\* observable.subscribe(...) for the entry i of the list S
subscribe(sj, S, i) ==
  [S EXCEPT ![i] = [S[i] EXCEPT !.subscribed = TRUE,
                                !.got = onSubscribe(sj, S[i].src)]]

\* the list S after the subject sid has handed note to its subscribers
deliver(S, sid, note) ==
  [i \in 1..Len(S) |->
     IF S[i].subscribed /\ S[i].src = asObservable(sid) /\ ~HasCompleted(S[i])
     THEN [S[i] EXCEPT !.got = Append(@, note)]
     ELSE S[i]]

\* subject.next(value): the subjects and the list afterwards
subjectNext(sj, S, sid, value) ==
  IF sj[sid].stopped THEN [subjects |-> sj, subs |-> S]
  ELSE [subjects |-> [sj EXCEPT ![sid].buffer = Append(@, value)],
        subs     |-> deliver(S, sid, NextNote(value))]

\* subject.complete()
subjectComplete(sj, S, sid) ==
  IF sj[sid].stopped THEN [subjects |-> sj, subs |-> S]
  ELSE [subjects |-> [sj EXCEPT ![sid].stopped = TRUE],
        subs     |-> deliver(S, sid, CompleteNote)]

\* the subscriptions of forkJoin to its sources
ForkJoinSources(S) == {i \in 1..Len(S) : S[i].owner = "forkJoin"}

\* forkJoin emitting as soon as one of its sources has completed
forkJoinEmitsOnFirst(S) ==
  /\ ForkJoinSources(S) # {}
  /\ \E i \in ForkJoinSources(S) : HasCompleted(S[i]) /\ HasValue(S[i])

\* forkJoin has emitted: every source has completed, with a value
forkJoinEmits(S) ==
  /\ ForkJoinSources(S) # {}
  /\ \A i \in ForkJoinSources(S) : HasCompleted(S[i]) /\ HasValue(S[i])

(***************************************************************************)
(* ADT$LazyLoadLibs.  loaded is the record _loaded, from the urls          *)
(* requested to the identity of their ReplaySubject; document the list of  *)
(* the elements appended, each with its tag, its url, the element it was   *)
(* appended to and whether its load event has fired.                       *)
(***************************************************************************)
VARIABLES loaded, document

\* the record {}
EmptyRecord == [url \in {} |-> 0]

\* the element created for a url of extension ext
NewElement(url, ext) ==
  [tag    |-> IF ext = "SCRIPT" THEN "script" ELSE "link",
   url    |-> url,
   parent |-> IF ext = "SCRIPT" THEN "body" ELSE "head",
   fired  |-> FALSE]

\* load(url) without the test for the extension NONE: the url gets an entry
\* and a link element whatever its extension
loadNewAnyExtension(ld, sj, doc, url) ==
  LET ext == getExtension(StringValue(url))
      sid == Len(sj) + 1
  IN  [loaded   |-> [u \in DOMAIN ld \cup {url} |->
                       IF u = url THEN sid ELSE ld[u]],
       subjects |-> Append(sj, NewReplaySubject),
       document |-> Append(doc, NewElement(url, ext)),
       obs      |-> asObservable(sid)]

\* load(url) when the url has no entry in _loaded
loadNew(ld, sj, doc, url) ==
  LET ext == getExtension(StringValue(url))
  IN  IF ext = "NONE"
      THEN [loaded |-> ld, subjects |-> sj, document |-> doc, obs |-> of(NullPoint)]
      ELSE LET sid == Len(sj) + 1
           IN  [loaded   |-> [u \in DOMAIN ld \cup {url} |->
                                IF u = url THEN sid ELSE ld[u]],
                subjects |-> Append(sj, NewReplaySubject),
                document |-> Append(doc, NewElement(url, ext)),
                obs      |-> asObservable(sid)]

\* load without the look-up in _loaded: every call loads
loadAlways(ld, sj, doc, url) == loadNew(ld, sj, doc, url)

\* load(url): _loaded, the subjects and the document afterwards, and the
\* Observable returned
load(ld, sj, doc, url) ==
  IF url \in DOMAIN ld
  THEN [loaded |-> ld, subjects |-> sj, document |-> doc,
        obs |-> asObservable(ld[url])]
  ELSE loadNew(ld, sj, doc, url)

\* the onload handler of the element created for url: next(), complete()
onload(ld, sj, S, url) ==
  LET sid == ld[url]
      r   == subjectNext(sj, S, sid, Undefined)
  IN  subjectComplete(r.subjects, r.subs, sid)

(***************************************************************************)
(* AppComponent, its view and the drawing directive.  app holds the fields *)
(* of the component: libraryRef, available, _pointUtils, _pointReflector,  *)
(* _pointCloud (the identity of an array of heap), its position pc in the  *)
(* component lifecycle (constructed, init after ngOnInit, checked after    *)
(* the first change detection, viewInit after ngAfterViewInit), the number *)
(* of runs of __onLibraryLoaded, the number of clicks on the button and    *)
(* whether a handler has thrown.  view is what the template shows: the     *)
(* main section (ngIf libraryRef), the disabled state of the button, the   *)
(* directive on the drawing area and what it has drawn.  window holds the  *)
(* names defined in the global scope, library the names the script         *)
(* point-libs.js defines when it runs.                                     *)
(***************************************************************************)
VARIABLES app, view, window, library

\* the names point-libs.js defines
PointLibs == {"TSMT$Point", "TSMT$ApproxEqual", "TSMT$PointUtils"}

\* the directive before it has drawn
EmptyCanvas == [points |-> <<>>, line |-> <<>>, calls |-> <<>>]

\* ReflectDirective.drawPoints(cloud)
drawPoints(canvas, cloud) ==
  [canvas EXCEPT !.points = cloud, !.calls = Append(@, "drawPoints")]

\* ReflectDirective.defineLineSegment(x0, y0, x1, y1)
defineLineSegment(canvas, x0, y0, x1, y1) ==
  [canvas EXCEPT !.line = <<Point(x0, y0), Point(x1, y1)>>,
                 !.calls = Append(@, "defineLineSegment")]

\* the bindings of the template evaluated: ngIf libraryRef, disabled
\* !available
bind(a, v) == [v EXCEPT !.main = a.libraryRef, !.buttonDisabled = ~a.available]

\* __onReflector that marks the directive available without drawing on it
onReflectorNoDraw(a, v, h, line) ==
  IF ~v.directive
  THEN [app |-> [a EXCEPT !.pointReflector = "undefined", !.available = TRUE,
                          !.thrown = TRUE],
        view |-> v]
  ELSE LET a1 == [a EXCEPT !.pointReflector = "directive", !.available = TRUE]
       IN  [app |-> a1, view |-> bind(a1, v)]

\* __onReflector(): the component and the view afterwards; _reflector.first
\* is undefined when the view holds no directive, and drawPoints then throws
onReflector(a, v, h, line) ==
  IF ~v.directive
  THEN [app |-> [a EXCEPT !.pointReflector = "undefined", !.available = TRUE,
                          !.thrown = TRUE],
        view |-> v]
  ELSE LET a1 == [a EXCEPT !.pointReflector = "directive", !.available = TRUE]
           c1 == drawPoints(v.canvas, h[a.pointCloud])
           c2 == defineLineSegment(c1, line.p0.x, line.p0.y, line.p1.x, line.p1.y)
       IN  [app |-> a1, view |-> bind(a1, [v EXCEPT !.canvas = c2])]

\* a change detection pass: the template is rendered for the current
\* fields; when the drawing area appears the directive is created, and the
\* QueryList tells its subscriber, if it has one
detectChanges(a, v, h, line) ==
  LET appears == a.libraryRef /\ ~v.directive
      v1 == [v EXCEPT !.directive = a.libraryRef,
                      !.canvas = IF a.libraryRef /\ v.directive THEN @ ELSE EmptyCanvas]
      a1 == [a EXCEPT !.pc = IF @ = "init" THEN "checked" ELSE @]
  IN  IF appears /\ a.pc = "viewInit"
      THEN onReflector(a1, bind(a1, v1), h, line)
      ELSE [app |-> a1, view |-> bind(a1, v1)]

\* onReflect(): the component, the view and the arrays afterwards; a call on
\* a missing library or a missing directive throws a TypeError
onReflect(a, v, h, line) ==
  IF a.pointUtils # "TSMT$PointUtils"
  THEN [app |-> [a EXCEPT !.thrown = TRUE], view |-> v, heap |-> h]
  ELSE LET r  == reflect(h, {a.pointCloud}, a.pointCloud, line.p0, line.p1)
           a1 == [a EXCEPT !.pointCloud = r.ret]
           h1 == Collect(r.heap, {r.ret})
       IN  IF a.pointReflector # "directive"
           THEN [app |-> [a1 EXCEPT !.thrown = TRUE], view |-> v, heap |-> h1]
           ELSE [app  |-> a1,
                 view |-> [v EXCEPT !.canvas = drawPoints(@, h1[r.ret])],
                 heap |-> h1]

\* __onLibraryLoaded that sets libraryRef without the test of _pointUtils
onLibraryLoadedUnchecked(a, win) ==
  LET pointUtils == IF "TSMT$PointUtils" \in win THEN "TSMT$PointUtils" ELSE "undefined"
  IN  [a EXCEPT !.pointUtils = pointUtils,
                !.libraryRef = TRUE,
                !.runs = @ + 1]

\* __onLibraryLoaded(arr)
onLibraryLoaded(a, win) ==
  LET pointUtils == IF "TSMT$PointUtils" \in win THEN "TSMT$PointUtils" ELSE "undefined"
  IN  [a EXCEPT !.pointUtils = pointUtils,
                !.libraryRef = IF pointUtils # "undefined" THEN TRUE ELSE @,
                !.runs = @ + 1]

\* the subscriber of forkJoin: it runs when forkJoin emits, which it had
\* not for the list S0 and has for the list S1
onForkJoin(a, win, S0, S1) ==
  IF ~forkJoinEmits(S0) /\ forkJoinEmits(S1) THEN onLibraryLoaded(a, win) ELSE a

\* the variables of the loader, of the component and of its environment
appVars == <<subjects, subs, loaded, document, app, view, window, library>>

vars == <<heap, callVars, appVars>>

\* the loader after construction, nothing requested
LoaderConstructed ==
  /\ loaded = EmptyRecord
  /\ document = <<>>
  /\ subjects = <<>>
  /\ subs = <<>>

\* the component after construction, its cloud being the array cloud
ComponentConstructed(cloud) ==
  /\ app = [pc |-> "constructed", libraryRef |-> FALSE, available |-> FALSE,
            pointUtils |-> "null", pointReflector |-> "undefined",
            pointCloud |-> cloud, runs |-> 0, clicks |-> 0, thrown |-> FALSE]
  /\ view = [main |-> FALSE, buttonDisabled |-> TRUE, directive |-> FALSE,
             canvas |-> EmptyCanvas]
  /\ window = {}

(***************************************************************************)
(* The client: it builds arguments and calls the library.                  *)
(***************************************************************************)
\* the signed distances handed to project: -MaxDist..MaxDist
MaxDist == 1

Coords == 0..MaxCoord

CloudCoords == 0..MaxCloudCoord

GridPoints == {Point(Num(x), Num(y)) : x \in Coords, y \in Coords}

CloudPoints == {Point(Num(x), Num(y)) : x \in CloudCoords, y \in CloudCoords}

Clouds == UNION {[1..n -> CloudPoints] : n \in 0..MaxLen}

Dists == {Num(n) : n \in (0 - MaxDist)..MaxDist}

\* the cloud and the line of AppComponent
AppCloud ==
  << Point(Num(20), Num(10)), Point(Num(30), Num(45)), Point(Num(100), Num(100)),
     Point(Num(24), Num(125)), Point(Num(50), Num(50)), Point(Num(150), Num(35)),
     Point(Num(200), Num(90)), Point(Num(180), Num(150)), Point(Num(220), Num(30)),
     Point(Num(75), Num(150)), Point(Num(100), Num(180)) >>

AppLine == [p0 |-> Point(Num(50), Num(325)), p1 |-> Point(Num(500), Num(100))]

\* args.kind tells which of the fields the client has built
NoArgs == [kind |-> "none", points |-> 0, p0 |-> NullPoint, p1 |-> NullPoint,
           p |-> NullPoint, p3 |-> NullPoint, d |-> Num(0),
           a |-> Undefined, b |-> Undefined, tol |-> Undefined,
           file |-> Undefined]

\* a cloud alone
InitCloud ==
  \E c \in Clouds :
    /\ heap = Store(EmptyHeap, 1, c)
    /\ args = [NoArgs EXCEPT !.kind = "cloud", !.points = 1]

\* a cloud and the two points of a line
InitCloudLine ==
  \E c \in Clouds, q0 \in CloudPoints, q1 \in CloudPoints :
    /\ heap = Store(EmptyHeap, 1, c)
    /\ args = [NoArgs EXCEPT !.kind = "cloudLine", !.points = 1, !.p0 = q0, !.p1 = q1]

\* the cloud the application reflects, or its first point alone, and the
\* line it reflects about
InitAppCloud ==
  \E c \in {AppCloud, SubSeq(AppCloud, 1, 1)} :
  /\ heap = Store(EmptyHeap, 1, c)
  /\ args = [NoArgs EXCEPT !.kind = "cloudLine", !.points = 1,
                           !.p0 = AppLine.p0, !.p1 = AppLine.p1]

\* the two points of a line, a third point p and the cloud [p]
InitLinePoint ==
  \E q0 \in GridPoints, q1 \in GridPoints, q \in GridPoints :
    /\ heap = Store(EmptyHeap, 1, <<q>>)
    /\ args = [NoArgs EXCEPT !.kind = "linePoint", !.points = 1,
                             !.p0 = q0, !.p1 = q1, !.p = q]

\* an origin, a direction point and a signed distance
InitProject ==
  \E q0 \in GridPoints, q1 \in GridPoints, dd \in Dists :
    /\ heap = EmptyHeap
    /\ args = [NoArgs EXCEPT !.kind = "project", !.p0 = q0, !.p1 = q1, !.d = dd]

\* the end points of two segments
InitSegments ==
  \E q0 \in CloudPoints, q1 \in CloudPoints, q2 \in CloudPoints, q3 \in CloudPoints :
    /\ heap = EmptyHeap
    /\ args = [NoArgs EXCEPT !.kind = "segments", !.p0 = q0, !.p1 = q1,
                             !.p = q2, !.p3 = q3]

\* the arguments of new TSMT$Point: finite numbers, or left out
CtorValues == {NumberValue(Num(n)) : n \in (0 - MaxCloudCoord)..MaxCloudCoord} \cup {Undefined}

\* the values assigned to x and y
SetterValues ==
  {NumberValue(Num(n)) : n \in (0 - MaxCloudCoord)..MaxCloudCoord}
    \cup {NumberValue(Infinity), NumberValue(NaN), Undefined}
    \cup {BooleanValue(b) : b \in BOOLEAN}
    \cup {StringValue(str) : str \in PointStrings}

\* a TSMT$Point just constructed
InitPoint ==
  \E x \in CtorValues, y \in CtorValues :
    /\ heap = EmptyHeap
    /\ args = [NoArgs EXCEPT !.kind = "point", !.p = Point(x, y)]
    /\ point = TSMTPoint(x, y)

\* two point arguments of which one at least is null or undefined
InitMissingPoint ==
  \E q0 \in CloudPoints \cup {NullPoint, Undefined},
     q1 \in CloudPoints \cup {NullPoint, Undefined} :
    /\ IsMissingPoint(q0) \/ IsMissingPoint(q1)
    /\ heap = EmptyHeap
    /\ args = [NoArgs EXCEPT !.kind = "missingPoint", !.p0 = q0, !.p1 = q1]

\* the largest number of '.' in a file name
MaxDots == 2

\* the texts between the dots of a file name
FileParts ==
  { <<>>, <<"x">>, <<"/", "a">>, <<"m", "i", "n">>,
    <<"j", "s">>, <<"J", "s">>, <<"c", "s", "s">>, <<"C", "s", "S">> }

\* the file names with n dots
RECURSIVE NamesWithDots(_)
NamesWithDots(n) ==
  IF n = 0 THEN FileParts
  ELSE {name \o <<".">> \o part : name \in NamesWithDots(n - 1), part \in FileParts}

FileNames == UNION {NamesWithDots(n) : n \in 0..MaxDots}

\* a file name, or none
InitFile ==
  \E file \in {StringValue(name) : name \in FileNames} \cup {Undefined, NullPoint} :
    /\ heap = EmptyHeap
    /\ args = [NoArgs EXCEPT !.kind = "file", !.file = file]

\* the numbers compared: the small integers, four large ones that are
\* within and beyond a thousandth of each other, the infinities and NaN
CompareNumbers ==
  {Num(n) : n \in (0 - MaxCloudCoord)..MaxCloudCoord}
    \cup {Num(998), Num(999), Num(1000), Num(1001)}
    \cup {Infinity, RNeg(Infinity), NaN}

CompareValues == {NumberValue(q) : q \in CompareNumbers} \cup {Undefined, NullPoint}

\* the tolerances: left out, or a number below, at or above 1
Tolerances ==
  {Undefined} \cup {NumberValue(q) : q \in {Num(0), Rat(1, 10000), Rat(1, 1000), Num(1), Num(2)}}

\* two values to compare and a tolerance
InitCompare ==
  \E a \in CompareValues, b \in CompareValues, tol \in Tolerances :
    /\ heap = EmptyHeap
    /\ args = [NoArgs EXCEPT !.kind = "compare", !.a = a, !.b = b, !.tol = tol]

LibInit ==
  /\ \/ InitCloud /\ point = NullPoint
     \/ InitCloudLine /\ point = NullPoint
     \/ InitAppCloud /\ point = NullPoint
     \/ InitLinePoint /\ point = NullPoint
     \/ InitProject /\ point = NullPoint
     \/ InitSegments /\ point = NullPoint
     \/ InitPoint
     \/ InitCompare /\ point = NullPoint
     \/ InitMissingPoint /\ point = NullPoint
     \/ InitFile /\ point = NullPoint
  /\ op = "none"
  /\ ret = NoValue
  /\ pre = [cloud |-> IF args.points = 0 THEN <<>> ELSE heap[args.points],
            args |-> args]
  /\ LoaderConstructed
  /\ ComponentConstructed(1)
  /\ library = PointLibs

\* the client keeps its arguments and the value returned
Returns(name, value) ==
  /\ op' = name
  /\ ret' = value
  /\ heap' = Collect(heap, {args.points})
  /\ UNCHANGED <<args, pre, point, appVars>>

HasLine == args.kind \in {"linePoint"}

HasCloud == args.kind \in {"cloud"}

CallL2Norm ==
  /\ HasLine \/ args.kind = "missingPoint"
  /\ Returns("l2Norm", Root(l2Norm(args.p0, args.p1)))

CallAngle ==
  /\ HasLine
  /\ \E toDegree \in BOOLEAN :
       Returns("angle", AngleValue(angle(args.p0, args.p1, toDegree)))

CallRatio ==
  /\ args.kind = "linePoint"
  /\ Returns("ratio", Root(ratio(args.p0, args.p1, args.p)))

CallIsParallel ==
  /\ args.kind = "segments"
  /\ Returns("isParallel", Boolean(isParallel(args.p0, args.p1, args.p, args.p3)))

CallPointOnLine ==
  /\ args.kind = "linePoint"
  /\ Returns("pointOnLine", Boolean(pointOnLine(args.p0, args.p1, args.p)))

CallIsLeft ==
  /\ args.kind = "linePoint"
  /\ Returns("isLeft", Boolean(isLeft(args.p0, args.p1, args.p)))

CallProject ==
  /\ args.kind = "project"
  /\ Returns("project", PointObj(project(args.p0, args.p1, args.d)))

CallBottomLeft ==
  /\ HasCloud
  /\ Returns("bottomLeft", Index(bottomLeft(heap[args.points])))

CallBottomRight ==
  /\ HasCloud
  /\ Returns("bottomRight", Index(bottomRight(heap[args.points])))

CallClosestPointToLine ==
  /\ args.kind = "cloudLine"
  /\ Returns("closestPointToLine",
             closestPointToLine(heap[args.points], args.p0, args.p1))

CallPointToLineDistancee ==
  /\ args.kind = "linePoint"
  /\ Returns("pointToLineDistancee",
             Root(pointToLineDistancee(args.p0, args.p1, args.p)))

CallPointToSegmentDistance ==
  /\ args.kind = "linePoint"
  /\ Returns("pointToSegmentDistance",
             Root(pointToSegmentDistance(args.p0, args.p1, args.p)))

CallPointSegmentProjection ==
  /\ args.kind = "linePoint"
  /\ Returns("pointSegmentProjection",
             PointObj(pointSegmentProjection(args.p0, args.p1, args.p)))

\* ret = reflect(points, p0, p1)
CallReflect ==
  /\ args.kind \in {"cloudLine", "linePoint"}
  /\ LET r == reflect(heap, {args.points}, args.points, args.p0, args.p1)
     IN  /\ heap' = Collect(r.heap, {args.points, r.ret})
         /\ ret' = ArrayRef(r.ret)
  /\ op' = "reflect"
  /\ UNCHANGED <<args, pre, point, appVars>>

\* ret = reflect(ret, p0, p1): the cloud just returned is reflected about
\* the same line
CallReflectAgain ==
  /\ op = "reflect"
  /\ LET r == reflect(heap, {args.points, ret.id}, ret.id, args.p0, args.p1)
     IN  /\ heap' = Collect(r.heap, {args.points, r.ret})
         /\ ret' = ArrayRef(r.ret)
  /\ op' = "reflectAgain"
  /\ UNCHANGED <<args, pre, point, appVars>>

CallCompare ==
  /\ args.kind = "compare"
  /\ Returns("compare", Boolean(ApproxEqualCompare(args.a, args.b, args.tol)))

\* what getExtension returns
Extension(e) == [k |-> "extension", e |-> e]

CallGetExtension ==
  /\ args.kind = "file"
  /\ Returns("getExtension", Extension(getExtension(args.file)))

\* point.x = value
SetX ==
  /\ args.kind = "point"
  /\ \E value \in SetterValues : point' = setX(point, value)
  /\ op' = "setX"
  /\ ret' = NoValue
  /\ UNCHANGED <<heap, args, pre, appVars>>

\* point.y = value
SetY ==
  /\ args.kind = "point"
  /\ \E value \in SetterValues : point' = setY(point, value)
  /\ op' = "setY"
  /\ ret' = NoValue
  /\ UNCHANGED <<heap, args, pre, appVars>>

\* point.length()
CallLength ==
  /\ args.kind = "point"
  /\ point' = length(point)
  /\ op' = "length"
  /\ ret' = Root(point'.norm)
  /\ UNCHANGED <<heap, args, pre, appVars>>

LibNext ==
  \/ CallL2Norm
  \/ CallAngle
  \/ CallRatio
  \/ CallIsParallel
  \/ CallPointOnLine
  \/ CallIsLeft
  \/ CallProject
  \/ CallBottomLeft
  \/ CallBottomRight
  \/ CallClosestPointToLine
  \/ CallPointToLineDistancee
  \/ CallPointToSegmentDistance
  \/ CallPointSegmentProjection
  \/ CallReflect
  \/ CallReflectAgain
  \/ SetX
  \/ SetY
  \/ CallLength
  \/ CallCompare
  \/ CallGetExtension

SpecLib == LibInit /\ [][LibNext]_vars

(***************************************************************************)
(* The application: the component is created and initialized, the load     *)
(* events of the elements arrive, the framework detects changes, the user  *)
(* clicks the button when it is enabled; another client of the loader      *)
(* requests urls and subscribes to what it was handed.                     *)
(***************************************************************************)
\* 'assets/libs/point-libs.js'
JsUrl ==
  << "a", "s", "s", "e", "t", "s", "/", "l", "i", "b", "s", "/", "p", "o",
     "i", "n", "t", "-", "l", "i", "b", "s", ".", "j", "s" >>

\* 'assets/styles/container-styles.css'
CssUrl ==
  << "a", "s", "s", "e", "t", "s", "/", "s", "t", "y", "l", "e", "s", "/",
     "c", "o", "n", "t", "a", "i", "n", "e", "r", "-", "s", "t", "y", "l",
     "e", "s", ".", "c", "s", "s" >>

\* 'lib.min.js'
MinJsUrl ==
  << "l", "i", "b", ".", "m", "i", "n", ".", "j", "s" >>

\* 'notes.txt'
TxtUrl ==
  << "n", "o", "t", "e", "s", ".", "t", "x", "t" >>

\* the urls requested from the loader
Urls == {JsUrl, CssUrl, MinJsUrl, TxtUrl}

\* the number of load calls of the other client
MaxLoads == 2

\* the number of clicks on the button
MaxClicks == 2

\* the positions in document and in subs
ElementSlots == 1..(MaxLoads + 2)

SubSlots == 1..(MaxLoads + 2)

AppInit ==
  /\ heap = Store(EmptyHeap, 1, AppCloud)
  /\ args = NoArgs
  /\ op = "none"
  /\ ret = NoValue
  /\ pre = [cloud |-> <<>>, args |-> NoArgs]
  /\ point = NullPoint
  /\ LoaderConstructed
  /\ ComponentConstructed(1)
  /\ library \in {PointLibs, {}}

\* an observable handed out for url, not subscribed to
Handed(owner, url, obs) ==
  [owner |-> owner, url |-> url, src |-> obs, subscribed |-> FALSE, got |-> <<>>]

\* ngOnInit(): both resources are requested, forkJoin subscribes to the two
\* observables, and its subscriber runs at once when both have completed
NgOnInit ==
  /\ app.pc = "constructed"
  /\ \E l1 \in {load(loaded, subjects, document, JsUrl)} :
     \E l2 \in {load(l1.loaded, l1.subjects, l1.document, CssUrl)} :
     \E S1 \in {subs \o << Handed("forkJoin", JsUrl, l1.obs),
                            Handed("forkJoin", CssUrl, l2.obs) >>} :
     \E S2 \in {subscribe(l2.subjects, S1, Len(subs) + 1)} :
     \E S3 \in {subscribe(l2.subjects, S2, Len(subs) + 2)} :
         /\ loaded' = l2.loaded
         /\ subjects' = l2.subjects
         /\ document' = l2.document
         /\ subs' = S3
         /\ app' = [onForkJoin(app, window, subs, S3) EXCEPT !.pc = "init"]
  /\ UNCHANGED <<heap, callVars, view, window, library>>

\* the load event of the element i of the document: the script has run, the
\* onload handler emits and completes, the subscribers run
Onload(i) ==
  /\ i \in 1..Len(document)
  /\ ~document[i].fired
  /\ \E el \in {document[i]} :
     \E win \in {IF el.tag = "script" /\ el.url = JsUrl
                  THEN window \cup library ELSE window} :
     \E r \in {onload(loaded, subjects, subs, el.url)} :
         /\ document' = [document EXCEPT ![i].fired = TRUE]
         /\ window' = win
         /\ subjects' = r.subjects
         /\ subs' = r.subs
         /\ app' = onForkJoin(app, win, subs, r.subs)
  /\ UNCHANGED <<heap, callVars, loaded, view, library>>

\* a change detection pass of the framework
DetectChanges ==
  /\ app.pc # "constructed"
  /\ LET r == detectChanges(app, view, heap, AppLine)
     IN  /\ app' = r.app
         /\ view' = r.view
  /\ UNCHANGED <<heap, callVars, subjects, subs, loaded, document, window, library>>

\* ngAfterViewInit(): subscribe to the changes of the QueryList
NgAfterViewInit ==
  /\ app.pc = "checked"
  /\ app' = [app EXCEPT !.pc = "viewInit"]
  /\ UNCHANGED <<heap, callVars, subjects, subs, loaded, document, view, window, library>>

\* a click on the button, which is shown and enabled: onReflect()
OnReflect ==
  /\ view.main
  /\ ~view.buttonDisabled
  /\ app.clicks < MaxClicks
  /\ LET r == onReflect(app, view, heap, AppLine)
     IN  /\ app' = [r.app EXCEPT !.clicks = @ + 1]
         /\ view' = r.view
         /\ heap' = r.heap
  /\ UNCHANGED <<callVars, subjects, subs, loaded, document, window, library>>

\* the other client calls load(url) and keeps the Observable
ClientLoad(url) ==
  /\ Cardinality({i \in 1..Len(subs) : subs[i].owner = "client"}) < MaxLoads
  /\ LET l == load(loaded, subjects, document, url)
     IN  /\ loaded' = l.loaded
         /\ subjects' = l.subjects
         /\ document' = l.document
         /\ subs' = Append(subs, Handed("client", url, l.obs))
  /\ UNCHANGED <<heap, callVars, app, view, window, library>>

\* the other client subscribes to an Observable it keeps
ClientSubscribe(i) ==
  /\ i \in 1..Len(subs)
  /\ subs[i].owner = "client"
  /\ ~subs[i].subscribed
  /\ subs' = subscribe(subjects, subs, i)
  /\ UNCHANGED <<heap, callVars, subjects, loaded, document, app, view, window, library>>

AppNext ==
  \/ NgOnInit
  \/ \E i \in ElementSlots : Onload(i)
  \/ DetectChanges
  \/ NgAfterViewInit
  \/ OnReflect
  \/ \E url \in Urls : ClientLoad(url)
  \/ \E i \in SubSlots : ClientSubscribe(i)

SpecApp == AppInit /\ [][AppNext]_vars

\* the framework initializes the component, and every element appended
\* gets its load event
SpecAppFair ==
  /\ SpecApp
  /\ WF_vars(NgOnInit)
  /\ \A i \in ElementSlots : WF_vars(Onload(i))

(***************************************************************************)
(* The claims about reflect.                                               *)
(***************************************************************************)
\* squared length of q1 - q0
SquaredLength(q0, q1) ==
  LET dx == RSub(q1.x, q0.x)
      dy == RSub(q1.y, q0.y)
  IN  RAdd(RMul(dx, dx), RMul(dy, dy))

\* the line through q0 and q1 is not degenerate
NonDegenerate(q0, q1) == RGe(SquaredLength(q0, q1), Rat(1, 100000000))

\* (q1-q0) x (q-q0)
Cross(q0, q1, q) ==
  RSub(RMul(RSub(q1.x, q0.x), RSub(q.y, q0.y)),
       RMul(RSub(q.x, q0.x), RSub(q1.y, q0.y)))

\* (q1-q0) . (q-q0)
Dot(q0, q1, q) ==
  RAdd(RMul(RSub(q1.x, q0.x), RSub(q.x, q0.x)),
       RMul(RSub(q1.y, q0.y), RSub(q.y, q0.y)))

\* the point the closed form of the claim gives for q
Mirror(q, q0, q1) ==
  LET dx == RSub(q1.x, q0.x)
      dy == RSub(q1.y, q0.y)
      d  == RAdd(RMul(dx, dx), RMul(dy, dy))
      a  == RDiv(RSub(RMul(dx, dx), RMul(dy, dy)), d)
      b  == RDiv(RMul(RMul(Num(2), dx), dy), d)
      u  == RSub(q.x, q0.x)
      v  == RSub(q.y, q0.y)
  IN  Point(RAdd(RAdd(RMul(a, u), RMul(b, v)), q0.x),
            RAdd(RSub(RMul(b, u), RMul(a, v)), q0.y))

\* m is the mirror image of q across the line through q0 and q1: the
\* midpoint of q and m is on the line and m - q is perpendicular to it
IsMirrorImage(m, q, q0, q1) ==
  LET mid == Point(RDiv(RAdd(q.x, m.x), Num(2)), RDiv(RAdd(q.y, m.y), Num(2)))
  IN  /\ Cross(q0, q1, mid) = Num(0)
      /\ RAdd(RMul(RSub(q1.x, q0.x), RSub(m.x, q.x)),
              RMul(RSub(q1.y, q0.y), RSub(m.y, q.y))) = Num(0)

\* the state after the call reflect(points, p0, p1) about a line that is
\* not degenerate
Reflected == op = "reflect" /\ NonDegenerate(args.p0, args.p1)

\* C1: reflect about a non-degenerate line returns a newly built cloud of
\* the same length whose element i is the mirror image of points[i] across
\* the line through p0 and p1, given by the closed form
\* (a*u+b*v+p0.x, b*u-a*v+p0.y); [(20,10)] about (50,325)-(500,100) gives
\* [(284,538)].
C1_ReflectBuildsMirrorImage ==
  Reflected =>
    /\ ret.k = "array"
    /\ ret.id # args.points
    /\ ret.id \in DOMAIN heap
    /\ Len(heap[ret.id]) = Len(pre.cloud)
    /\ \A i \in 1..Len(pre.cloud) :
         /\ heap[ret.id][i] = Mirror(pre.cloud[i], args.p0, args.p1)
         /\ IsMirrorImage(heap[ret.id][i], pre.cloud[i], args.p0, args.p1)
    /\ (pre.cloud = <<Point(Num(20), Num(10))>> /\ args.p0 = AppLine.p0
        /\ args.p1 = AppLine.p1)
         => heap[ret.id] = <<Point(Num(284), Num(538))>>

\* the example of C1 has been computed
C1_Witness ==
  /\ Reflected
  /\ pre.cloud = <<Point(Num(20), Num(10))>>
  /\ args.p0 = AppLine.p0 /\ args.p1 = AppLine.p1
  /\ heap[ret.id] = <<Point(Num(284), Num(538))>>

\* C2: reflecting the cloud returned by reflect about the same
\* non-degenerate line gives back the coordinates of the original cloud,
\* element for element (in exact arithmetic).
C2_ReflectIsInvolution ==
  (op = "reflectAgain" /\ NonDegenerate(args.p0, args.p1)) =>
    /\ ret.k = "array"
    /\ heap[ret.id] = pre.cloud

\* the cloud of the application has been reflected twice about its line
C2_Witness ==
  /\ op = "reflectAgain"
  /\ pre.cloud = AppCloud
  /\ args.p0 = AppLine.p0 /\ args.p1 = AppLine.p1
  /\ ret.id # args.points
  /\ heap[ret.id] = AppCloud

\* C3: about a degenerate line (squared length of p1-p0 below 1e-8, p0 = p1
\* included) reflect returns the very array it was handed, allocates no
\* array and leaves the content of the cloud as it was.
C3_DegenerateLineReturnsSameCloud ==
  (op = "reflect" /\ ~NonDegenerate(args.p0, args.p1)) =>
    /\ ret = ArrayRef(args.points)
    /\ DOMAIN heap = {args.points}
    /\ heap[args.points] = pre.cloud

\* reflect has been called with p0 = p1 on a cloud of two points
C3_Witness ==
  /\ op = "reflect"
  /\ args.p0 = args.p1
  /\ Len(pre.cloud) = 2
  /\ ret = ArrayRef(args.points)

\* C4: no operation of TSMT$PointUtils changes a point or a cloud it is
\* handed: after any sequence of calls every argument has the value the
\* client gave it.
C4_ArgumentsUnchanged ==
  /\ args = pre.args
  /\ args.points # 0 => (args.points \in DOMAIN heap /\ heap[args.points] = pre.cloud)

\* reflect has built a cloud that differs from the one it was handed
C4_Witness ==
  /\ Reflected
  /\ Len(pre.cloud) = 2
  /\ heap[ret.id] # pre.cloud
  /\ heap[args.points] = pre.cloud

(***************************************************************************)
(* The claims about the other operations of TSMT$PointUtils.               *)
(***************************************************************************)
\* |a*q.x + b*q.y + c| for the line through q0 and q1
LineOffset(q, q0, q1) ==
  LET a == RSub(q0.y, q1.y)
      b == RSub(q1.x, q0.x)
      c == RSub(RMul(q0.x, q1.y), RMul(q1.x, q0.y))
  IN  RAbs(RAdd(RAdd(RMul(a, q.x), RMul(b, q.y)), c))

\* C5: for a nonempty cloud closestPointToLine returns normally, and what
\* it returns is the lowest index that minimizes |a*x + b*y + c|.
C5_ClosestPointIsLowestMinimizer ==
  (op = "closestPointToLine" /\ Len(pre.cloud) >= 1) =>
    /\ ret.k = "index"
    /\ ret.i \in 0..(Len(pre.cloud) - 1)
    /\ \A j \in 1..Len(pre.cloud) :
         /\ RLe(LineOffset(pre.cloud[ret.i + 1], args.p0, args.p1),
                LineOffset(pre.cloud[j], args.p0, args.p1))
         /\ j < ret.i + 1 =>
              RGt(LineOffset(pre.cloud[j], args.p0, args.p1),
                  LineOffset(pre.cloud[ret.i + 1], args.p0, args.p1))

\* C6: project(p0, p1, d) is p0 + d*(cos t, sin t) for the direction angle t
\* of p0->p1 in radians; for p0 = p1 it is (p0.x + d, p0.y).
C6_ProjectUsesRadians ==
  op = "project" =>
    LET t == angle(args.p0, args.p1, FALSE)
    IN  /\ ret.k = "point"
        /\ ret.pt = Point(Along(args.p0.x, MathCos(t), args.d),
                          Along(args.p0.y, MathSin(t), args.d))
        /\ args.p0 = args.p1 =>
             ret.pt = Point(Exact(RAdd(args.p0.x, args.d)), Exact(args.p0.y))

\* the square of the distance from q to the line through q0 # q1
SquaredLineDistance(q0, q1, q) ==
  RDiv(RMul(Cross(q0, q1, q), Cross(q0, q1, q)), SquaredLength(q0, q1))

\* C7: for p0 # p1 the segment distance is at least the distance to the
\* infinite line: it is the distance to p0 when c1 = (p-p0).(p1-p0) <= 0,
\* the distance to p1 when c1 >= |p1-p0|^2, and the perpendicular distance
\* to the line otherwise.
C7_SegmentDistanceAtLeastLineDistance ==
  (op = "pointToSegmentDistance" /\ args.p0 # args.p1) =>
    LET c1 == Dot(args.p0, args.p1, args.p)
        c2 == SquaredLength(args.p0, args.p1)
    IN  /\ ret.k = "root"
        /\ SqrtGe(ret, pointToLineDistancee(args.p0, args.p1, args.p))
        /\ RGe(ret.sq, SquaredLineDistance(args.p0, args.p1, args.p))
        /\ RLe(c1, Num(0)) => ret.sq = SquaredLength(args.p0, args.p)
        /\ RGe(c1, c2) => ret.sq = SquaredLength(args.p1, args.p)
        /\ (RGt(c1, Num(0)) /\ RLt(c1, c2)) =>
             /\ ret.sq = SquaredLineDistance(args.p0, args.p1, args.p)
             /\ ret.sq = pointToLineDistancee(args.p0, args.p1, args.p).sq

\* the distance to the end point p1 has been returned for a point beyond p1
\* and off the line, where the line is strictly nearer
C7_Witness ==
  /\ op = "pointToSegmentDistance"
  /\ args.p0 # args.p1
  /\ RGt(Dot(args.p0, args.p1, args.p), SquaredLength(args.p0, args.p1))
  /\ Cross(args.p0, args.p1, args.p) # Num(0)
  /\ ret.sq = SquaredLength(args.p1, args.p)
  /\ RGt(ret.sq, pointToLineDistancee(args.p0, args.p1, args.p).sq)

\* q is a point of the closed segment [q0, q1]
OnSegment(q0, q1, q) ==
  IF q0 = q1 THEN q = q0
  ELSE /\ Cross(q0, q1, q) = Num(0)
       /\ RGe(Dot(q0, q1, q), Num(0))
       /\ RLe(Dot(q0, q1, q), SquaredLength(q0, q1))

\* C8: pointOnLine(p0, p1, p) decides membership in the closed segment
\* [p0, p1]: true for the end points and for every point of the segment,
\* false for every other point, p0 = p1 # p included.
C8_PointOnLineDecidesMembership ==
  op = "pointOnLine" =>
    /\ ret.k = "boolean"
    /\ ret.b = OnSegment(args.p0, args.p1, args.p)

\* C9: isLeft is true exactly when (p1-p0) x (p2-p0) > 0, and a point off a
\* non-degenerate line and its image under reflect about that line are on
\* different sides: isLeft differs for them.
C9_IsLeftFlipsUnderReflection ==
  /\ op = "isLeft" =>
       /\ ret.k = "boolean"
       /\ ret.b = RGt(Cross(args.p0, args.p1, args.p), Num(0))
  /\ (Reflected /\ args.kind = "linePoint"
      /\ Cross(args.p0, args.p1, args.p) # Num(0)) =>
       LET q == heap[ret.id][1]
       IN  isLeft(args.p0, args.p1, args.p) # isLeft(args.p0, args.p1, q)

\* a point on the left of the line has been reflected to a point that is
\* not on the left
C9_Witness ==
  /\ Reflected
  /\ args.kind = "linePoint"
  /\ isLeft(args.p0, args.p1, args.p)
  /\ ~isLeft(args.p0, args.p1, heap[ret.id][1])
  /\ heap[ret.id][1] # args.p

\* pts[i + 1] is a lowest point, leftmost (side = "left") or rightmost
\* (side = "right") among the lowest, and no earlier point equals it
IsBottom(pts, i, side) ==
  /\ i \in 0..(Len(pts) - 1)
  /\ \A j \in 1..Len(pts) :
       /\ ~RLt(pts[j].y, pts[i + 1].y)
       /\ pts[j].y = pts[i + 1].y =>
            IF side = "left" THEN ~RLt(pts[j].x, pts[i + 1].x)
                             ELSE ~RGt(pts[j].x, pts[i + 1].x)
       /\ j < i + 1 => pts[j] # pts[i + 1]

\* C10: for a nonempty cloud bottomLeft returns the index of a point of
\* minimum y with minimum x among those, bottomRight the index of a point
\* of minimum y with maximum x among those, the lowest index when several
\* points are such minima.
C10_BottomLeftAndRight ==
  /\ (op = "bottomLeft" /\ Len(pre.cloud) >= 1) =>
       (ret.k = "index" /\ IsBottom(pre.cloud, ret.i, "left"))
  /\ (op = "bottomRight" /\ Len(pre.cloud) >= 1) =>
       (ret.k = "index" /\ IsBottom(pre.cloud, ret.i, "right"))

\* bottomRight has returned the second of two points of equal y
C10_Witness ==
  /\ op = "bottomRight"
  /\ Len(pre.cloud) = 2
  /\ pre.cloud[1].y = pre.cloud[2].y
  /\ ret.i = 1

(***************************************************************************)
(* The claims about pointSegmentProjection, isParallel, compare and the    *)
(* degenerate inputs.                                                      *)
(***************************************************************************)
\* (q0-c) . (q1-c)
DotAt(c, q0, q1) ==
  RAdd(RMul(RSub(q0.x, c.x), RSub(q1.x, c.x)),
       RMul(RSub(q0.y, c.y), RSub(q1.y, c.y)))

\* c is the point of the closed segment [q0, q1] closest to q: c is on the
\* segment and neither end point is on the side of c towards q
IsClosestOnSegment(c, q0, q1, q) ==
  /\ OnSegment(q0, q1, c)
  /\ RLe(DotAt(c, q, q0), Num(0))
  /\ RLe(DotAt(c, q, q1), Num(0))

NormOf(pt) ==
  MathSqrt(RAdd(RMul(pt.x.num, pt.x.num), RMul(pt.y.num, pt.y.num)))

\* both coordinates of a TSMT$Point are finite numbers
HasFiniteCoordinates(pt) ==
  /\ typeof(pt.x) = "number" /\ isFinite(pt.x.num)
  /\ typeof(pt.y) = "number" /\ isFinite(pt.y.num)

\* C12: for a TSMT$Point with finite numeric coordinates every call of
\* length() returns sqrt(x*x + y*y) for the coordinates current at the call,
\* and whenever _invalidated is false the cached _norm is sqrt(_x*_x + _y*_y).
C12_LengthIsNormOfCurrentCoordinates ==
  (args.kind = "point" /\ HasFiniteCoordinates(point)) =>
    /\ op = "length" => (ret.k = "root" /\ ret.sq = NormOf(point).sq)
    /\ ~point.invalidated => point.norm = NormOf(point)

\* length() has been called on a point whose coordinates are no longer
\* those it was constructed with, and whose norm has changed with them
C12_Witness ==
  /\ args.kind = "point"
  /\ op = "length"
  /\ HasFiniteCoordinates(point)
  /\ ~IsUndefined(args.p.x) /\ ~IsUndefined(args.p.y)
  /\ point.x # args.p.x
  /\ ret.sq # NormOf([x |-> args.p.x, y |-> args.p.y]).sq
  /\ ret.sq = NormOf(point).sq

\* (q1-q0) x (q3-q2)
DirectionCross(q0, q1, q2, q3) ==
  RSub(RMul(RSub(q1.x, q0.x), RSub(q3.y, q2.y)),
       RMul(RSub(q1.y, q0.y), RSub(q3.x, q2.x)))

\* (q1-q0) . (q3-q2)
DirectionDot(q0, q1, q2, q3) ==
  RAdd(RMul(RSub(q1.x, q0.x), RSub(q3.x, q2.x)),
       RMul(RSub(q1.y, q0.y), RSub(q3.y, q2.y)))

\* C13: isParallel is true for every two non-degenerate segments whose
\* direction vectors have zero cross product, in whichever order the end
\* points of each are given, and false for perpendicular segments.
C13_IsParallelDecidesParallelism ==
  (op = "isParallel" /\ args.p0 # args.p1 /\ args.p # args.p3) =>
    /\ ret.k = "boolean"
    /\ DirectionCross(args.p0, args.p1, args.p, args.p3) = Num(0) => ret.b
    /\ DirectionDot(args.p0, args.p1, args.p, args.p3) = Num(0) => ~ret.b

\* the value is undefined, null or NaN
IsMissing(v) == IsUndefined(v) \/ IsNull(v) \/ v = NumberValue(NaN)

\* the larger of |a| and |b|
LargerAbs(a, b) == IF RGt(RAbs(b), RAbs(a)) THEN RAbs(b) ELSE RAbs(a)

\* the tolerance in force: 0.001 when tol is left out
TolOf(tol) == IF IsUndefined(tol) THEN Rat(1, 1000) ELSE tol.num

\* C14: compare returns a boolean for all values: false when a or b is
\* undefined, null or NaN, true when a == b, otherwise true exactly when
\* |a-b| over the larger of |a| and |b| is at most tol (0.001 by default);
\* it gives the same for (b, a), and is false for 0 and a nonzero b when
\* tol < 1.
C14_CompareIsRelativeErrorTest ==
  op = "compare" =>
    /\ ret.k = "boolean"
    /\ (IsMissing(args.a) \/ IsMissing(args.b)) => ~ret.b
    /\ (~IsMissing(args.a) /\ ~IsMissing(args.b)) =>
         LET a == args.a.num
             b == args.b.num
         IN  /\ a = b => ret.b
             /\ a # b =>
                  (ret.b <=> RLe(RDiv(RAbs(RSub(a, b)), LargerAbs(a, b)), TolOf(args.tol)))
             /\ (a = Num(0) /\ b # Num(0) /\ RLt(TolOf(args.tol), Num(1))) => ~ret.b
    /\ ret.b = ApproxEqualCompare(args.b, args.a, args.tol)

\* two different numbers whose relative error is exactly the default
\* tolerance have been found equal with tol left out
C14_Witness ==
  /\ op = "compare"
  /\ IsUndefined(args.tol)
  /\ args.a = NumberValue(Num(999))
  /\ args.b = NumberValue(Num(1000))
  /\ ret.b

\* C19: degenerate and missing inputs give values: l2Norm is 0 when a point
\* is null or undefined; for p0 = p1, ratio(p0, p1, p2) is the quotient by
\* zero, Infinity when p2 # p0 and NaN when p2 = p0, and
\* pointToLineDistancee(p0, p1, p) is NaN.
C19_DegenerateInputsGiveValues ==
  /\ (op = "l2Norm" /\ args.kind = "missingPoint") =>
       (ret.k = "root" /\ ret.sq = Num(0))
  /\ (op = "ratio" /\ args.p0 = args.p1) =>
       /\ ret.k = "root"
       /\ args.p # args.p0 => ret.sq = Infinity
       /\ args.p = args.p0 => isNaN(ret.sq)
  /\ (op = "pointToLineDistancee" /\ args.p0 = args.p1) =>
       (ret.k = "root" /\ isNaN(ret.sq))

\* ratio has returned Infinity for a segment p0-p1 of no length
C19_Witness ==
  /\ op = "ratio"
  /\ args.p0 = args.p1
  /\ args.p # args.p0
  /\ ret.sq = Infinity

(***************************************************************************)
(* The claim about getExtension.                                           *)
(***************************************************************************)
\* the 1-based position of the last '.' of str at or before position i, 0
\* when there is none
RECURSIVE LastDotFrom(_, _)
LastDotFrom(str, i) ==
  IF i = 0 THEN 0
  ELSE IF str[i] = "." THEN i
  ELSE LastDotFrom(str, i - 1)

\* the kind of resource the text after the last '.' of str stands for
KindByLastDot(str) ==
  LET dot == LastDotFrom(str, Len(str))
      ext == SubSeq(str, dot + 1, Len(str))
  IN  IF dot = 0 THEN "NONE"
      ELSE IF toLowerCase(ext) = <<"j", "s">> THEN "SCRIPT"
      ELSE IF toLowerCase(ext) = <<"c", "s", "s">> THEN "CSS"
      ELSE "NONE"

\* C16: getExtension returns SCRIPT when the text after the last '.' of the
\* file name is 'js' in any letter case, CSS when it is 'css' in any letter
\* case, and NONE otherwise: for undefined, null, the empty string, a name
\* without '.' and any other extension; names with several '.' included.
C16_ExtensionIsTextAfterLastDot ==
  op = "getExtension" =>
    /\ ret.k = "extension"
    /\ ret.e \in EXTENSION_ENUM
    /\ (IsUndefined(args.file) \/ IsNull(args.file)) => ret.e = "NONE"
    /\ (~IsUndefined(args.file) /\ ~IsNull(args.file)) =>
         ret.e = KindByLastDot(args.file.str)

(***************************************************************************)
(* The claims about ADT$LazyLoadLibs and AppComponent.                     *)
(***************************************************************************)
\* the elements appended for url
ElementsFor(url) == {i \in 1..Len(document) : document[i].url = url}

\* an element appended for url has had its load event
Fired(url) == \E i \in ElementsFor(url) : document[i].fired

\* every observable handed out for a url of the set U emits and completes
\* only once the element appended for the url has had its load event, and a
\* subscriber that is subscribed once it has had it has received the value
\* and the completion
CompletesOnlyAfterOnload(U) ==
  \A i \in 1..Len(subs) :
    subs[i].url \in U =>
      /\ (HasValue(subs[i]) \/ HasCompleted(subs[i])) => Fired(subs[i].url)
      /\ (subs[i].subscribed /\ Fired(subs[i].url)) =>
           subs[i].got = <<NextNote(Undefined), CompleteNote>>

\* C15: the Observable load(url) returns for a url with the extension js or
\* css emits and completes only after the element for the url has been
\* appended and its onload handler has run; a subscriber that subscribes
\* after that, also to the Observable of a later load(url), still receives
\* the value and the completion.
C15_CompletesOnlyAfterOnload ==
  CompletesOnlyAfterOnload({url \in Urls : KindByLastDot(url) # "NONE"})

\* the same for the urls getExtension takes for a script or a style sheet
ClassifiedUrlsCompleteOnlyAfterOnload ==
  CompletesOnlyAfterOnload({url \in Urls : getExtension(StringValue(url)) # "NONE"})

\* the other client has subscribed after the load event of the script the
\* component requested and has received the value and the completion
LateSubscriberServed ==
  \E i \in 1..Len(subs), j \in 1..Len(subs) :
    /\ subs[i].owner = "forkJoin" /\ subs[j].owner = "client"
    /\ subs[i].url = JsUrl /\ subs[j].url = JsUrl
    /\ i < j
    /\ Fired(JsUrl)
    /\ subs[j].got = <<NextNote(Undefined), CompleteNote>>

\* the load of url has completed: its ReplaySubject has
LoadCompleted(url) ==
  /\ url \in DOMAIN loaded
  /\ subjects[loaded[url]].stopped

\* libraryRef is set only when both loads have completed, and
\* __onLibraryLoaded has run once at most
LibraryRefOnlyWhenLoaded ==
  /\ app.libraryRef => (LoadCompleted(JsUrl) /\ LoadCompleted(CssUrl))
  /\ app.libraryRef => (Fired(JsUrl) /\ Fired(CssUrl))
  /\ app.runs <= 1

\* C17: libraryRef is false as long as the load of the script or the load
\* of the style sheet has not completed, in whichever order the two load
\* events arrive; __onLibraryLoaded runs once at most; and when every
\* element gets its load event and the script defines TSMT$PointUtils,
\* libraryRef becomes true.
C17_MainShownOnlyWhenLoaded ==
  /\ []LibraryRefOnlyWhenLoaded
  /\ (library = PointLibs) ~> app.libraryRef

\* __onLibraryLoaded has run and set libraryRef after both load events
C17_Witness ==
  /\ app.libraryRef
  /\ app.runs = 1
  /\ app.pointUtils = "TSMT$PointUtils"
  /\ Fired(JsUrl) /\ Fired(CssUrl)

\* C18: available implies that _pointReflector holds the directive and that
\* the cloud and then the line have been drawn on it; the button is enabled
\* only then, so that no click comes before.
C18_AvailableOnlyWhenDrawn ==
  /\ app.available =>
       /\ app.pointReflector = "directive"
       /\ view.directive
       /\ Len(view.canvas.calls) >= 2
       /\ view.canvas.calls[1] = "drawPoints"
       /\ view.canvas.calls[2] = "defineLineSegment"
       /\ view.canvas.line = <<AppLine.p0, AppLine.p1>>
       /\ app.clicks = 0 => view.canvas.points = AppCloud
  /\ (view.main /\ ~view.buttonDisabled) => app.available
  /\ app.clicks > 0 => app.available

\* the button is enabled, not yet clicked, and the cloud and the line of the
\* component are on the drawing area
C18_Witness ==
  /\ app.available
  /\ view.main /\ ~view.buttonDisabled
  /\ app.clicks = 0
  /\ view.canvas.points = AppCloud
  /\ view.canvas.calls = <<"drawPoints", "defineLineSegment">>

\* one element at most per url, and every Observable backed by a subject is
\* backed by the entry of its url in _loaded
OneEntryPerUrl ==
  /\ \A url \in Urls : Cardinality(ElementsFor(url)) <= 1
  /\ \A i \in 1..Len(subs) :
       IsSubjectSource(subs[i].src) =>
         /\ subs[i].url \in DOMAIN loaded
         /\ subs[i].src = asObservable(loaded[subs[i].url])
  /\ \A url \in DOMAIN loaded : Cardinality(ElementsFor(url)) = 1

\* a step keeps every entry of _loaded
EntriesKept ==
  \A url \in DOMAIN loaded : url \in DOMAIN loaded' /\ loaded'[url] = loaded[url]

\* C20: over every interleaving of load calls and load events one element
\* at most is appended for a url, every load(url) observes the same
\* ReplaySubject, before and after the load event, and an entry of _loaded
\* is never replaced or removed.
C20_OneEntryPerUrl ==
  /\ []OneEntryPerUrl
  /\ [][EntriesKept]_vars

\* the script has been requested by the component and by the other client,
\* its one element has had its load event, and both observe one subject
C20_Witness ==
  /\ Cardinality(ElementsFor(JsUrl)) = 1
  /\ Fired(JsUrl)
  /\ \E i \in 1..Len(subs), j \in 1..Len(subs) :
       /\ subs[i].owner = "forkJoin" /\ subs[j].owner = "client"
       /\ subs[i].url = JsUrl /\ subs[j].url = JsUrl
       /\ subs[i].src = subs[j].src
       /\ HasCompleted(subs[i]) /\ HasCompleted(subs[j])

\* the urls getExtension takes for neither a script nor a style sheet
NoneUrls == {url \in Urls : getExtension(StringValue(url)) = "NONE"}

\* what a subscriber of of(null) receives
NullThenComplete == <<NextNote(NullPoint), CompleteNote>>

\* a url of NoneUrls has no entry and no element, load(url) returns of(null)
\* and changes nothing, and every Observable handed out for it is of(null)
NoneUrlLoadsNothing ==
  /\ \A url \in NoneUrls :
       /\ url \notin DOMAIN loaded
       /\ ElementsFor(url) = {}
       /\ LET l == load(loaded, subjects, document, url)
          IN  /\ l.obs = of(NullPoint)
              /\ l.loaded = loaded
              /\ l.document = document
              /\ l.subjects = subjects
              /\ onSubscribe(l.subjects, l.obs) = NullThenComplete
  /\ \A i \in 1..Len(subs) :
       subs[i].url \in NoneUrls =>
         /\ subs[i].src = of(NullPoint)
         /\ subs[i].subscribed => subs[i].got = NullThenComplete

\* a step that hands out an Observable for a url of NoneUrls leaves _loaded,
\* the subjects and the document as they were
NoneLoadChangesNothing ==
  (Len(subs') > Len(subs) /\ subs'[Len(subs')].url \in NoneUrls) =>
    /\ loaded' = loaded
    /\ subjects' = subjects
    /\ document' = document
    /\ subs'[Len(subs')].src = of(NullPoint)

\* C21: load(url) for a url without an entry that getExtension classifies
\* as NONE returns an Observable that emits null and completes at once,
\* appends no element and creates no entry in _loaded, so that a later load
\* of the same url does the same.
C21_NoneUrlLoadsNothing ==
  /\ []NoneUrlLoadsNothing
  /\ [][NoneLoadChangesNothing]_vars

\* 'notes.txt' has been requested twice, both subscribers have received
\* null and the completion, and the script requested besides has its entry
\* and its element
C21_Witness ==
  /\ \E i \in 1..Len(subs), j \in 1..Len(subs) :
       /\ i < j
       /\ subs[i].url = TxtUrl /\ subs[j].url = TxtUrl
       /\ subs[i].got = NullThenComplete /\ subs[j].got = NullThenComplete
  /\ TxtUrl \notin DOMAIN loaded
  /\ ElementsFor(TxtUrl) = {}
  /\ JsUrl \in DOMAIN loaded
  /\ Cardinality(ElementsFor(JsUrl)) = 1

\* available implies that the library is there; no handler has thrown; the
\* cloud of the component has the length of the initial one, and after a
\* click it is the one on the drawing area
AvailableOnlyWithLibrary ==
  /\ app.available =>
       /\ app.libraryRef
       /\ app.pointUtils = "TSMT$PointUtils"
       /\ "TSMT$PointUtils" \in window
  /\ ~app.thrown
  /\ app.pointCloud \in DOMAIN heap
  /\ Len(heap[app.pointCloud]) = Len(AppCloud)
  /\ app.clicks > 0 =>
       /\ view.canvas.points = heap[app.pointCloud]
       /\ view.canvas.calls[Len(view.canvas.calls)] = "drawPoints"

\* a click happens with the button enabled and the library there, and
\* leaves a cloud of the same length, which is the one drawn
ClickReflectsAndDraws ==
  (app'.clicks = app.clicks + 1) =>
    /\ app.available
    /\ app.pointUtils = "TSMT$PointUtils"
    /\ Len(heap'[app'.pointCloud]) = Len(heap[app.pointCloud])
    /\ heap'[app'.pointCloud] # heap[app.pointCloud]
    /\ view'.canvas.points = heap'[app'.pointCloud]
    /\ view'.canvas.calls = Append(view.canvas.calls, "drawPoints")

\* C22: available implies libraryRef and that _pointUtils is the loaded
\* TSMT$PointUtils, neither null nor undefined; so onReflect, reached only
\* through the enabled button, never calls reflect on a missing library,
\* and each onReflect replaces _pointCloud by a cloud of the same length,
\* which is then the one drawn.
C22_ReflectOnlyWithLibrary ==
  /\ []AvailableOnlyWithLibrary
  /\ [][ClickReflectsAndDraws]_vars

\* the button has been clicked once: the reflected cloud is drawn
C22_Witness ==
  /\ app.available
  /\ app.clicks = 1
  /\ ~app.thrown
  /\ view.canvas.points = heap[app.pointCloud]
  /\ view.canvas.points # AppCloud
  /\ Len(view.canvas.points) = Len(AppCloud)

====
